---- MODULE Spec2Model ----
(***************************************************************************)
(* Model of two scripts of the repository:                                 *)
(*   - Python/analyse_attack_markdown.py: the ATT&CK version differ, from  *)
(*     the command line to the written and printed report (Spec);          *)
(*   - Python/sigma_rules_to_excel_exporter.py: check_for_latest_release,  *)
(*     the retry loop around the GitHub release request (SigmaSpec).       *)
(***************************************************************************)
EXTENDS Integers, Sequences, FiniteSets, TLC

VARIABLES
    pc,             \* position of the differ script
    argc,           \* len(sys.argv)
    fstat1,         \* what the file system holds at sys.argv[1]
    fstat2,         \* what the file system holds at sys.argv[2]
    data16,         \* data16['objects']
    data17,         \* data17['objects']
    objects16,      \* id -> object index of the from snapshot
    objects17,      \* id -> object index of the to snapshot
    types16,        \* type -> count, from snapshot
    types17,        \* type -> count, to snapshot
    new_ids,
    removed_ids,
    common_ids,
    modified_ids,
    new_by_type,    \* type -> list of added objects (keys: types seen)
    removed_by_type,
    output,         \* the list of report lines
    fileContent,    \* what was written to the report file
    console,        \* the print calls made so far, in order
    exitStatus,     \* the process exit status, Running while it runs
    error,          \* the uncaught exception, NoError if none
    spc,            \* position of check_for_latest_release
    retries,
    requests,       \* HTTP requests made so far (saturates at MaxRequests)
    slept,          \* argument of the last time.sleep call, 0 if none
    response,       \* the response being handled
    result,         \* return value of check_for_latest_release
    cpc,            \* position of the caller of clean_text
    input,          \* the text clean_text is given
    cleaned,        \* clean_text(input)
    recleaned       \* clean_text(clean_text(input))

attackVars == <<pc, argc, fstat1, fstat2, data16, data17, objects16, objects17,
                types16, types17, new_ids, removed_ids, common_ids,
                modified_ids, new_by_type, removed_by_type, output,
                fileContent, console, exitStatus, error>>
sigmaVars == <<spc, retries, requests, slept, response, result>>
cleanVars == <<cpc, input, cleaned, recleaned>>
vars == <<attackVars, sigmaVars, cleanVars>>

----------------------------------------------------------------------------
(* Bounds *)

\* longest text clean_text is given
MaxTextLen == 2
\* total number of objects over the two snapshots
MaxObjects == 4
\* len(sys.argv) ranges over 1..MaxArgc
MaxArgc == 4
\* the request counter saturates here
MaxRequests == 8

----------------------------------------------------------------------------
(* Values *)

None == "<None>"            \* what dict.get gives for a key the dict lacks
NoFile == <<"<no file>">>
NoError == "<none>"
Running == 0 - 1
Idle == "<idle>"

\* Text is a sequence of characters; a character outside ASCII is written by
\* its code point ("U+2019").

\* the technique and malware blocks in each other's place
CategoriesSwapped ==
    <<"malware", "intrusion-set", "attack-pattern", "tool", "campaign">>

\* The five report categories, in the order the report lists them.
Categories == <<"attack-pattern", "intrusion-set", "malware", "tool", "campaign">>

\* A JSON object of the 'objects' list: the keys it has, and their values
\* (the value of a key it lacks is never read).
Obj(keys, id, type, name, description, modified) ==
    [keys |-> keys, id |-> id, type |-> type, name |-> name,
     description |-> description, modified |-> modified]

Has(obj, key) == key \in obj.keys

AllKeys == {"id", "type", "name", "description", "modified"}

\* The objects the snapshots are drawn from, shaped as the ATT&CK bundles
\* hold them: one technique in three revisions (two 'modified' markers, and
\* one revision without the field), two malware families, and a relationship
\* that lacks 'id'.
SampleObjects ==
    {Obj(AllKeys, "attack-pattern--1", "attack-pattern",
         <<"T", "U+2019", "s">>, <<"a", "\n", "b", "U+2014">>, "t0"),
     Obj(AllKeys, "attack-pattern--1", "attack-pattern",
         <<"T", "U+2019", "s">>, <<>>, "t1"),
     Obj(AllKeys \ {"modified"}, "attack-pattern--1", "attack-pattern",
         <<"T", "U+2019", "s">>, <<"[", "x", "]", "(", "u", ")">>, None),
     Obj(AllKeys, "malware--1", "malware", <<"U+00FC", "x">>,
         <<"[", "x", "]", "(", "u", ")", " ", " ", "y">>, "t0"),
     Obj(AllKeys \ {"name", "description"}, "malware--2", "malware",
         <<>>, <<>>, "t0"),
     Obj(AllKeys \ {"id", "name", "description"}, "", "relationship",
         <<>>, <<>>, "t0")}

SeqsUpTo(S, n) == UNION {[1..k -> S] : k \in 0..n}

FileStates == {"missing", "unreadable", "malformed", "ok"}

----------------------------------------------------------------------------
(* Loader and Differ: analyse_attack_versions_markdown, lines 118-156 *)

\* the filter left out: every object is indexed
HasIdAlways(obj) == TRUE

\* the filter of the index: if 'id' in obj
HasId(obj) == Has(obj, "id")

\* set(objectsNN.keys()): the ids of the objects that have one
IndexedIds(objs) == {objs[i].id : i \in {j \in DOMAIN objs : HasId(objs[j])}}

\* {obj['id']: obj for obj in objs if 'id' in obj}: a later object replaces
\* an earlier one of the same id
Index(objs) ==
    [id \in IndexedIds(objs) |->
        LET last == CHOOSE i \in DOMAIN objs :
                        /\ HasId(objs[i]) /\ objs[i].id = id
                        /\ \A j \in DOMAIN objs :
                              (HasId(objs[j]) /\ objs[j].id = id) => j <= i
        IN objs[last]]

\* for obj in objs: types[obj['type']] += 1
CountTypes(objs) ==
    [t \in {objs[i].type : i \in DOMAIN objs} |->
        Cardinality({i \in DOMAIN objs : objs[i].type = t})]

\* types[t] of a defaultdict(int)
TypeCount(types, t) == IF t \in DOMAIN types THEN types[t] ELSE 0

NewIds(ids16, ids17) == ids17 \ ids16

\* the wrong set operator: the ids of both snapshots instead of those of the
\* first alone
RemovedIdsIntersect(ids16, ids17) == ids16 \cap ids17

RemovedIds(ids16, ids17) == ids16 \ ids17

CommonIds(ids16, ids17) == ids16 \cap ids17

\* obj.get('modified')
GetModified(obj) == IF Has(obj, "modified") THEN obj.modified ELSE None

\* the comparison inverted
ModifiedIdsInverted(o16, o17, common) ==
    {id \in common : GetModified(o16[id]) = GetModified(o17[id])}

\* only objects that both carry the field are compared
ModifiedIdsBothPresent(o16, o17, common) ==
    {id \in common : /\ Has(o16[id], "modified") /\ Has(o17[id], "modified")
                     /\ o16[id].modified # o17[id].modified}

ModifiedIds(o16, o17, common) ==
    {id \in common : GetModified(o16[id]) # GetModified(o17[id])}

\* The orders in which iterating a set of ids can yield them.
IterationOrders(S) ==
    {s \in [1..Cardinality(S) -> S] : \A i, j \in 1..Cardinality(S) : i # j => s[i] # s[j]}

\* for id_ in ids: by_type[index[id_]['type']].append(index[id_]), the ids
\* taken in the given iteration order
GroupByType(order, index) ==
    LET objs == [i \in DOMAIN order |-> index[order[i]]]
    IN [t \in {objs[i].type : i \in DOMAIN objs} |->
            SelectSeq(objs, LAMBDA o : o.type = t)]

----------------------------------------------------------------------------
(* Text cleaning: clean_text and the description clean-up of the Reporter *)

\* a table whose em dash row gives two en dashes, which the row before it
\* has already passed over
ReplacementsChained ==
    << <<"U+2019", <<"'">> >>,
       <<"U+2018", <<"'">> >>,
       <<"U+201C", <<"\"">> >>,
       <<"U+201D", <<"\"">> >>,
       <<"U+2013", <<"-">> >>,
       <<"U+2014", <<"U+2013", "U+2013">> >>,
       <<"U+2026", <<".", ".", ".">> >>,
       <<"U+00E6", <<"a", "e">> >>,
       <<"U+00C6", <<"A", "E">> >>,
       <<"U+00FC", <<"u">> >>,
       <<"U+00DC", <<"U">> >>,
       <<"U+00F6", <<"o">> >>,
       <<"U+00D6", <<"O">> >>,
       <<"U+00E4", <<"a">> >>,
       <<"U+00C4", <<"A">> >>,
       <<"U+00DF", <<"s", "s">> >>,
       <<"U+00F1", <<"n">> >>,
       <<"U+00D1", <<"N">> >> >>

\* the replacements table of clean_text, in its order
Replacements ==
    << <<"U+2019", <<"'">> >>,
       <<"U+2018", <<"'">> >>,
       <<"U+201C", <<"\"">> >>,
       <<"U+201D", <<"\"">> >>,
       <<"U+2013", <<"-">> >>,
       <<"U+2014", <<"-", "-">> >>,
       <<"U+2026", <<".", ".", ".">> >>,
       <<"U+00E6", <<"a", "e">> >>,
       <<"U+00C6", <<"A", "E">> >>,
       <<"U+00FC", <<"u">> >>,
       <<"U+00DC", <<"U">> >>,
       <<"U+00F6", <<"o">> >>,
       <<"U+00D6", <<"O">> >>,
       <<"U+00E4", <<"a">> >>,
       <<"U+00C4", <<"A">> >>,
       <<"U+00DF", <<"s", "s">> >>,
       <<"U+00F1", <<"n">> >>,
       <<"U+00D1", <<"N">> >> >>

\* text.replace(old, new) for a one-character old
RECURSIVE Replace(_, _, _)
Replace(text, old, new) ==
    IF text = <<>> THEN <<>>
    ELSE (IF Head(text) = old THEN new ELSE <<Head(text)>>)
         \o Replace(Tail(text), old, new)

\* the loop of clean_text over the first n rows of the table
RECURSIVE ReplaceRows(_, _)
ReplaceRows(text, n) ==
    IF n = 0 THEN text
    ELSE LET done == ReplaceRows(text, n - 1)
         IN Replace(done, Replacements[n][1], Replacements[n][2])

CleanText(text) ==
    IF text = <<>> THEN text ELSE ReplaceRows(text, Len(Replacements))

\* A value clean_text can be given: None, or a string.
NoneText == [isNone |-> TRUE, chars |-> <<>>]

Str(chars) == [isNone |-> FALSE, chars |-> chars]

\* clean_text of a value: 'if not text: return text' hands None back as it is
CleanTextValue(v) == IF v.isNone THEN v ELSE Str(CleanText(v.chars))

\* The characters the texts are made of: every character of the table, and
\* some the table leaves alone.
Alphabet ==
    {Replacements[n][1] : n \in DOMAIN Replacements} \cup {"a", "-", "'", ".", " "}

Texts == {NoneText} \cup {Str(chars) : chars \in SeqsUpTo(Alphabet, MaxTextLen)}

NotCleaned == Str(<<"<not cleaned>">>)

IdleClean ==
    /\ cpc = Idle /\ input = NoneText /\ cleaned = NotCleaned /\ recleaned = NotCleaned

InitClean ==
    /\ cpc = "start"
    /\ input \in Texts
    /\ cleaned = NotCleaned
    /\ recleaned = NotCleaned

\* clean_text(input)
CleanOnce ==
    /\ cpc = "start"
    /\ cleaned' = CleanTextValue(input)
    /\ cpc' = "once"
    /\ UNCHANGED <<input, recleaned, attackVars, sigmaVars>>

\* clean_text applied to its own result
CleanAgain ==
    /\ cpc = "once"
    /\ recleaned' = CleanTextValue(cleaned)
    /\ cpc' = "twice"
    /\ UNCHANGED <<input, cleaned, attackVars, sigmaVars>>

Whitespace == {" ", "\n", "\t", "\r"}

\* text.split(): the maximal runs of non-whitespace characters
RECURSIVE SplitWords(_, _)
SplitWords(text, word) ==
    IF text = <<>> THEN (IF word = <<>> THEN <<>> ELSE <<word>>)
    ELSE IF Head(text) \in Whitespace
         THEN (IF word = <<>> THEN <<>> ELSE <<word>>) \o SplitWords(Tail(text), <<>>)
         ELSE SplitWords(Tail(text), Append(word, Head(text)))

\* sep.join(parts)
RECURSIVE Join(_, _)
Join(parts, sep) ==
    IF parts = <<>> THEN <<>>
    ELSE IF Len(parts) = 1 THEN parts[1]
    ELSE parts[1] \o sep \o Join(Tail(parts), sep)

\* ' '.join(desc.split())
CollapseSpaces(text) == Join(SplitWords(text, <<>>), <<" ">>)

\* index of the first occurrence of ch in text at or after position i, 0 if none
RECURSIVE Find(_, _, _)
Find(text, ch, i) ==
    IF i > Len(text) THEN 0
    ELSE IF text[i] = ch THEN i ELSE Find(text, ch, i + 1)

\* re.sub(r'\[([^\]]+)\]\([^\)]+\)', r'\1', text), scanning from position i
RECURSIVE StripLinks(_, _)
StripLinks(text, i) ==
    IF i > Len(text) THEN <<>>
    ELSE LET j == Find(text, "]", i + 1)
             k == IF j = 0 THEN 0 ELSE Find(text, ")", j + 2)
             isLink == /\ text[i] = "["
                       /\ j > i + 1
                       /\ j + 1 <= Len(text) /\ text[j + 1] = "("
                       /\ k > j + 2
         IN IF isLink
            THEN SubSeq(text, i + 1, j - 1) \o StripLinks(text, k + 1)
            ELSE <<text[i]>> \o StripLinks(text, i + 1)

----------------------------------------------------------------------------
(* Reporter: analyse_attack_versions_markdown, lines 158-280 *)

\* The run compares the two bundles of the usage example; extract_version
\* gives these labels for enterprise-attack-16.1.json and -17.0.json.
File1 == "enterprise-attack-16.1.json"
File2 == "enterprise-attack-17.0.json"
version1 == "16.1"
version2 == "17.0"

\* f"{n:,}"
Comma(n) ==
    IF n < 1000 THEN <<ToString(n)>>
    ELSE <<ToString(n \div 1000), ",", ToString((n % 1000) \div 100),
           ToString((n % 100) \div 10), ToString(n % 10)>>

\* f"{n:+d}" and f"{n:+,}"
Signed(n) == IF n >= 0 THEN <<"+">> \o Comma(n) ELSE <<"-">> \o Comma(0 - n)

SectionTitle(cat) ==
    CASE cat = "attack-pattern" -> "### New Attack Techniques ("
      [] cat = "intrusion-set" -> "### New Threat Actors ("
      [] cat = "malware" -> "### New Malware Families ("
      [] cat = "tool" -> "### New Tools ("
      [] cat = "campaign" -> "### New Campaigns ("

DefaultDescription(cat) ==
    CASE cat = "attack-pattern" -> <<"Technique for adversary operations.">>
      [] cat = "intrusion-set" -> <<"Advanced Persistent Threat group.">>
      [] cat = "malware" -> <<"Malware family.">>
      [] cat = "tool" -> <<"Tool for adversary operations.">>
      [] cat = "campaign" -> <<"Campaign.">>

\* clean_text(obj.get('name', 'N/A'))
Name(obj) == CleanText(IF Has(obj, "name") THEN obj.name ELSE <<"N", "/", "A">>)

\* the description of a listed object; only techniques keep their links
Description(obj, cat) ==
    IF Has(obj, "description") /\ obj.description # <<>>
    THEN LET flat == Replace(CleanText(obj.description), "\n", <<" ">>)
             text == IF cat = "attack-pattern" THEN flat ELSE StripLinks(flat, 1)
         IN CollapseSpaces(text)
    ELSE DefaultDescription(cat)

\* f"{i}. **{name}** - {desc}"
ItemLine(i, obj, cat) ==
    <<ToString(i), ". **">> \o Name(obj) \o <<"** - ">> \o Description(obj, cat)

\* the block of one category: nothing unless the category is a key of by_type
Section(cat, by_type) ==
    IF cat \in DOMAIN by_type
    THEN << <<SectionTitle(cat), ToString(Len(by_type[cat])), " total)\n">> >>
         \o [i \in 1..Len(by_type[cat]) |-> ItemLine(i, by_type[cat][i], cat)]
         \o << <<>> >>
    ELSE <<>>

\* the category blocks, from the n-th category on
RECURSIVE Sections(_, _)
Sections(n, by_type) ==
    IF n > Len(Categories) THEN <<>>
    ELSE Section(Categories[n], by_type) \o Sections(n + 1, by_type)

TypeRow(label, t, t16, t17) ==
    <<label, ToString(TypeCount(t16, t)), " | ", ToString(TypeCount(t17, t)), " | ">>
    \o Signed(TypeCount(t17, t) - TypeCount(t16, t)) \o <<" |">>

\* lines 160-173
OverviewLines(d16, d17, t16, t17) ==
    << <<"# MITRE ATT&CK Version ", version1, " to ", version2, " Changes Summary\n">>,
       <<"## Version Overview\n">>,
       <<"| Component | Version ", version1, " | Version ", version2, " | Change |">>,
       <<"|-----------|--------------|--------------|--------|">>,
       <<"| **Release Date** | - | - | - |">>,
       <<"| **Total Objects** | ">> \o Comma(Len(d16)) \o <<" | ">> \o Comma(Len(d17))
            \o <<" | ">> \o Signed(Len(d17) - Len(d16)) \o <<" |">>,
       TypeRow("| **Attack Patterns** | ", "attack-pattern", t16, t17),
       TypeRow("| **Intrusion Sets** | ", "intrusion-set", t16, t17),
       TypeRow("| **Malware** | ", "malware", t16, t17),
       TypeRow("| **Tools** | ", "tool", t16, t17),
       TypeRow("| **Campaigns** | ", "campaign", t16, t17),
       <<>> >>

\* lines 176-181
StatisticsLines(new, removed, modified) ==
    << <<"## Major Changes Summary\n">>,
       <<"### Overall Statistics\n">>,
       <<"- **New Objects Added**: ">> \o Comma(Cardinality(new)),
       <<"- **Objects Removed**: ">> \o Comma(Cardinality(removed))
            \o <<" (primarily relationships)">>,
       <<"- **Modified Objects**: ">> \o Comma(Cardinality(modified)),
       <<"- **Net Change**: ">> \o Signed(Cardinality(new) - Cardinality(removed))
            \o <<" objects\n">> >>

\* by_type.get('relationship', []).__len__()
RelationshipCount(by_type) ==
    IF "relationship" \in DOMAIN by_type THEN Len(by_type["relationship"]) ELSE 0

\* lines 271-273
TechnicalHead(new_bt, removed_bt) ==
    << <<"## Technical Changes Summary\n">>,
       <<"- **Relationships Removed**: ">> \o Comma(RelationshipCount(removed_bt)),
       <<"- **Relationships Added**: ">> \o Comma(RelationshipCount(new_bt)) >>

\* len(modified_ids)*100//len(common_ids): raises ZeroDivisionError when
\* common_ids is empty, and is the floor of the quotient otherwise
PercentRaises(nModified, nCommon) == nCommon = 0

Percent(nModified, nCommon) == (nModified * 100) \div nCommon

\* lines 274-280
TechnicalTail(new, removed, modified, common) ==
    LET pct == ToString(Percent(Cardinality(modified), Cardinality(common)))
    IN << <<"- **Objects Modified**: ">> \o Comma(Cardinality(modified))
              \o <<" (", pct, "% of common objects)\n">>,
          <<"## Version Migration Timeline\n">>,
          <<"- **Version ", version1, " to ", version2, "**">>,
          <<"- **Total Objects Changed**: ">>
              \o Comma(Cardinality(new) + Cardinality(removed)),
          <<"- **Modification Rate**: ", pct, "% of common objects updated">> >>

\* '\n'.join(output)
Rendered(lines) == Join(lines, <<"\n">>)

\* line 285: what f.write is given
FileText(lines) == Rendered(lines)

\* the lines printed one after the other with nothing between them
ConsoleTextUnjoined(lines) == Join(lines, <<>>)

\* line 290: what print is given
ConsoleText(lines) == Rendered(lines)

----------------------------------------------------------------------------
(* The differ script, from the command line to the report *)

Empty == [x \in {} |-> 0]       \* an empty dict

NoResponse == [kind |-> Idle, wait_time |-> 0]

InitAttack ==
    /\ pc = "main"
    /\ argc \in 1..MaxArgc
    /\ fstat1 \in FileStates
    /\ fstat2 \in FileStates
    /\ data16 = <<>> /\ data17 = <<>>
    /\ objects16 = Empty /\ objects17 = Empty
    /\ types16 = Empty /\ types17 = Empty
    /\ new_ids = {} /\ removed_ids = {} /\ common_ids = {} /\ modified_ids = {}
    /\ new_by_type = Empty /\ removed_by_type = Empty
    /\ output = <<>>
    /\ fileContent = NoFile
    /\ console = <<>>
    /\ exitStatus = Running
    /\ error = NoError

IdleSigma ==
    /\ spc = Idle /\ retries = 0 /\ requests = 0 /\ slept = 0
    /\ response = NoResponse /\ result = Idle

\* sys.exit(status), or the death of the process by an uncaught exception
Exit(status, exc) ==
    /\ pc' = "exited"
    /\ exitStatus' = status
    /\ error' = exc

\* the status sys.exit gives for a wrong argument count
UsageStatus == 1

\* a status of its own for the missing path
OwnStatus == UsageStatus + 1

\* the status sys.exit gives for a path that does not exist
NotFoundStatus == 1

\* the status of a process that dies of an uncaught exception
UncaughtStatus == 1

\* __main__, lines 292-310, up to the call of analyse_attack_versions_markdown
Main ==
    /\ pc = "main"
    /\ IF argc # 3
       THEN /\ console' = console \o << <<"Usage">>, <<"Example">> >>
            /\ Exit(UsageStatus, NoError)
       ELSE IF fstat1 = "missing"
       THEN /\ console' = console \o << <<"Error: File '", File1, "' not found">> >>
            /\ Exit(NotFoundStatus, NoError)
       ELSE IF fstat2 = "missing"
       THEN /\ console' = console \o << <<"Error: File '", File2, "' not found">> >>
            /\ Exit(NotFoundStatus, NoError)
       ELSE /\ pc' = "analyse"
            /\ UNCHANGED <<console, exitStatus, error>>
    /\ UNCHANGED <<argc, fstat1, fstat2, data16, data17, objects16, objects17,
                   types16, types17, new_ids, removed_ids, common_ids,
                   modified_ids, new_by_type, removed_by_type, output,
                   fileContent, sigmaVars, cleanVars>>

\* a loader that swallows the parse error and goes on
LoadFailureSwallowed(fstat) ==
    CASE fstat = "unreadable" -> "OSError"
      [] OTHER -> NoError

\* what open() and json.load() do with a file in the given state
LoadFailure(fstat) ==
    CASE fstat = "unreadable" -> "OSError"
      [] fstat = "malformed" -> "JSONDecodeError"
      [] OTHER -> NoError

\* lines 104-116: the three prints, then the two loads
Load ==
    /\ pc = "analyse"
    /\ console' = console \o << <<"Reading MITRE ATT&CK files...">>,
                                <<"  From: ", File1, " (version ", version1, ")">>,
                                <<"  To: ", File2, " (version ", version2, ")">> >>
    /\ IF LoadFailure(fstat1) # NoError
       THEN /\ Exit(UncaughtStatus, LoadFailure(fstat1))
            /\ UNCHANGED <<data16, data17>>
       ELSE IF LoadFailure(fstat2) # NoError
       THEN /\ Exit(UncaughtStatus, LoadFailure(fstat2))
            /\ UNCHANGED <<data16, data17>>
       ELSE /\ \E d16 \in SeqsUpTo(SampleObjects, MaxObjects) :
                \E d17 \in SeqsUpTo(SampleObjects, MaxObjects - Len(d16)) :
                    /\ data16' = d16
                    /\ data17' = d17
            /\ pc' = "loaded"
            /\ UNCHANGED <<exitStatus, error>>
    /\ UNCHANGED <<argc, fstat1, fstat2, objects16, objects17, types16, types17,
                   new_ids, removed_ids, common_ids, modified_ids, new_by_type,
                   removed_by_type, output, fileContent, sigmaVars, cleanVars>>

\* lines 118-156: the indexes, the type counts, the id sets and the groups.
\* The two loops over new_ids and removed_ids take the ids in the order the
\* set yields them.
Diff ==
    /\ pc = "loaded"
    /\ LET o16 == Index(data16)
           o17 == Index(data17)
           ids16 == DOMAIN o16
           ids17 == DOMAIN o17
       IN /\ objects16' = o16
          /\ objects17' = o17
          /\ types16' = CountTypes(data16)
          /\ types17' = CountTypes(data17)
          /\ new_ids' = NewIds(ids16, ids17)
          /\ removed_ids' = RemovedIds(ids16, ids17)
          /\ common_ids' = CommonIds(ids16, ids17)
          /\ modified_ids' = ModifiedIds(o16, o17, CommonIds(ids16, ids17))
          /\ \E order \in IterationOrders(NewIds(ids16, ids17)) :
                new_by_type' = GroupByType(order, o17)
          /\ \E order \in IterationOrders(RemovedIds(ids16, ids17)) :
                removed_by_type' = GroupByType(order, o16)
    /\ pc' = "diffed"
    /\ UNCHANGED <<argc, fstat1, fstat2, data16, data17, output, fileContent,
                   console, exitStatus, error, sigmaVars, cleanVars>>

\* lines 158-280: the report lines; line 274 divides by len(common_ids)
Render ==
    /\ pc = "diffed"
    /\ LET head == OverviewLines(data16, data17, types16, types17)
                   \o StatisticsLines(new_ids, removed_ids, modified_ids)
                   \o Sections(1, new_by_type)
                   \o TechnicalHead(new_by_type, removed_by_type)
       IN IF PercentRaises(Cardinality(modified_ids), Cardinality(common_ids))
          THEN /\ output' = head
               /\ Exit(UncaughtStatus, "ZeroDivisionError")
          ELSE /\ output' = head \o TechnicalTail(new_ids, removed_ids,
                                                  modified_ids, common_ids)
               /\ pc' = "rendered"
               /\ UNCHANGED <<exitStatus, error>>
    /\ UNCHANGED <<argc, fstat1, fstat2, data16, data17, objects16, objects17,
                   types16, types17, new_ids, removed_ids, common_ids,
                   modified_ids, new_by_type, removed_by_type, fileContent,
                   console, sigmaVars, cleanVars>>

\* lines 282-287: the report file, and the print that names it
WriteFile ==
    /\ pc = "rendered"
    /\ fileContent' = FileText(output)
    /\ console' = Append(console, <<"Markdown summary written to: ",
                                    "mitre_attack_changes_", version1, "_to_",
                                    version2, ".md">>)
    /\ pc' = "written"
    /\ UNCHANGED <<argc, fstat1, fstat2, data16, data17, objects16, objects17,
                   types16, types17, new_ids, removed_ids, common_ids,
                   modified_ids, new_by_type, removed_by_type, output,
                   exitStatus, error, sigmaVars, cleanVars>>

\* line 290, and the normal end of the process
PrintReport ==
    /\ pc = "written"
    /\ console' = Append(console, ConsoleText(output))
    /\ pc' = "exited"
    /\ exitStatus' = 0
    /\ UNCHANGED <<argc, fstat1, fstat2, data16, data17, objects16, objects17,
                   types16, types17, new_ids, removed_ids, common_ids,
                   modified_ids, new_by_type, removed_by_type, output,
                   fileContent, error, sigmaVars, cleanVars>>

Init == InitAttack /\ IdleSigma /\ IdleClean

Next == Main \/ Load \/ Diff \/ Render \/ WriteFile \/ PrintReport

Spec == Init /\ [][Next]_vars

----------------------------------------------------------------------------
(* check_for_latest_release of sigma_rules_to_excel_exporter.py *)

\* the default of the max_retries parameter, which __main__ leaves in place
max_retries == 5

\* wait_time > 300 skips the update check
SkipAbove == 300

\* What requests.get can come back with: a release, a 403 that carries
\* X-RateLimit-Remaining: 0 (with the wait its X-RateLimit-Reset gives, or a
\* reset value int() rejects), a status raise_for_status rejects, or no
\* response at all.
Responses ==
    {[kind |-> "release", wait_time |-> 0],
     [kind |-> "http_error", wait_time |-> 0],
     [kind |-> "connection_error", wait_time |-> 0],
     [kind |-> "rate_limited_bad_reset", wait_time |-> 0]}
    \cup {[kind |-> "rate_limited", wait_time |-> w] : w \in {1, SkipAbove, SkipAbove + 1}}

RECURSIVE Pow2(_)
Pow2(n) == IF n = 0 THEN 1 ELSE 2 * Pow2(n - 1)

\* 2 ** retries
Backoff(n) == Pow2(n)

Bump(n) == IF n < MaxRequests THEN n + 1 ELSE n

IdleAttack ==
    /\ pc = Idle
    /\ argc = 0
    /\ fstat1 = Idle /\ fstat2 = Idle
    /\ data16 = <<>> /\ data17 = <<>>
    /\ objects16 = Empty /\ objects17 = Empty
    /\ types16 = Empty /\ types17 = Empty
    /\ new_ids = {} /\ removed_ids = {} /\ common_ids = {} /\ modified_ids = {}
    /\ new_by_type = Empty /\ removed_by_type = Empty
    /\ output = <<>>
    /\ fileContent = NoFile
    /\ console = <<>>
    /\ exitStatus = Running
    /\ error = NoError

InitSigma ==
    /\ spc = "loop"
    /\ retries = 0
    /\ requests = 0
    /\ slept = 0
    /\ response = NoResponse
    /\ result = Idle

\* line 73: while retries < max_retries, the request goes out
Request ==
    /\ spc = "loop"
    /\ retries < max_retries
    /\ response' \in Responses
    /\ requests' = Bump(requests)
    /\ spc' = "handle"
    /\ UNCHANGED <<retries, slept, result, attackVars, cleanVars>>

\* lines 74-91: what the loop body does with the response
Handle ==
    /\ spc = "handle"
    /\ CASE response.kind = "release" ->
                /\ result' = "tag" /\ spc' = "returned"
                /\ UNCHANGED <<retries, slept>>
         [] response.kind = "rate_limited" /\ response.wait_time > SkipAbove ->
                /\ result' = "skipped" /\ spc' = "returned"
                /\ UNCHANGED <<retries, slept>>
         [] response.kind = "rate_limited" /\ response.wait_time <= SkipAbove ->
                /\ slept' = response.wait_time
                /\ spc' = "loop"
                /\ UNCHANGED <<retries, result>>
         [] response.kind = "rate_limited_bad_reset" ->
                /\ result' = "ValueError" /\ spc' = "exited"
                /\ UNCHANGED <<retries, slept>>
         [] response.kind \in {"http_error", "connection_error"} ->
                /\ retries' = retries + 1
                /\ slept' = Backoff(retries + 1)
                /\ spc' = "loop"
                /\ UNCHANGED result
    /\ UNCHANGED <<requests, response, attackVars, cleanVars>>

\* line 92: the loop ran out of retries
GiveUp ==
    /\ spc = "loop"
    /\ retries >= max_retries
    /\ result' = "failed"
    /\ spc' = "exited"
    /\ UNCHANGED <<retries, requests, slept, response, attackVars, cleanVars>>

SigmaInit == IdleAttack /\ InitSigma /\ IdleClean

SigmaNext == Request \/ Handle \/ GiveUp

\* The interpreter runs the loop on: whatever step is enabled is taken.
SigmaSpec == SigmaInit /\ [][SigmaNext]_vars /\ WF_vars(SigmaNext)

----------------------------------------------------------------------------
(* Claims about the differ *)

\* the id sets and the groups have been computed
Diffed == pc \in {"diffed", "rendered", "written"} \/ output # <<>>

\* the run went through to its end and left a report
Reported == pc = "exited" /\ exitStatus = 0

\* C1: for every pair of loaded snapshots, added and removed are disjoint,
\* added with common is the set of indexed ids of 'to', and removed with
\* common is the set of indexed ids of 'from'.
C1_IdSetsPartition ==
    Diffed =>
        /\ new_ids \cap removed_ids = {}
        /\ new_ids \cup common_ids = DOMAIN objects17
        /\ removed_ids \cup common_ids = DOMAIN objects16

C1_Witness ==
    /\ Diffed
    /\ new_ids # {} /\ removed_ids # {} /\ common_ids # {}

\* the 'modified' marker of an indexed object, None where the field is absent
Marker(index, id) ==
    IF "modified" \in index[id].keys THEN index[id].modified ELSE None

\* C2: modified is a subset of common; the two markers of an id in modified
\* are unequal, and those of an id in common but not in modified are equal.
C2_ModifiedIffMarkersDiffer ==
    Diffed =>
        /\ modified_ids \subseteq common_ids
        /\ \A id \in modified_ids : Marker(objects16, id) # Marker(objects17, id)
        /\ \A id \in common_ids \ modified_ids :
              Marker(objects16, id) = Marker(objects17, id)

C2_Witness ==
    /\ Diffed
    /\ modified_ids # {}
    /\ common_ids \ modified_ids # {}

\* the two files were there and were loaded
Loaded == argc = 3 /\ fstat1 = "ok" /\ fstat2 = "ok" /\ pc \notin {"main", "analyse"}

\* C3: when common is empty the percentage of common is 0 and the run
\* completes with a report, without raising an error.
C3_ZeroPercentWhenNoCommon ==
    (Loaded /\ pc = "exited" /\ common_ids = {}) =>
        /\ error = NoError
        /\ exitStatus = 0
        /\ fileContent # NoFile
        /\ output[Len(output)] =
              <<"- **Modification Rate**: ", "0", "% of common objects updated">>

\* position in the object list of the object the index holds for an id
Position(objs, id) ==
    CHOOSE i \in DOMAIN objs :
        /\ Has(objs[i], "id") /\ objs[i].id = id
        /\ \A j \in DOMAIN objs : (Has(objs[j], "id") /\ objs[j].id = id) => j <= i

InSourceOrder(by_type, objs) ==
    \A t \in DOMAIN by_type :
        \A i, j \in DOMAIN by_type[t] :
            i < j => Position(objs, by_type[t][i].id) < Position(objs, by_type[t][j].id)

\* C4: inside each type group of the added (and of the removed) records, the
\* records are in the order of the object list of their snapshot.
C4_GroupsInSourceOrder ==
    Diffed =>
        /\ InSourceOrder(new_by_type, data17)
        /\ InSourceOrder(removed_by_type, data16)

LoadFails ==
    \/ fstat1 \in {"unreadable", "malformed"}
    \/ fstat2 \in {"unreadable", "malformed"}

IsReportText(text) == text # <<>> /\ text[1] = "# MITRE ATT&CK Version "

\* C5: if either source cannot be read or parsed, the run aborts with a load
\* failure before any report is produced: no report file is written and no
\* report content is printed.
C5_LoadFailureAborts ==
    LoadFails =>
        /\ fileContent = NoFile
        /\ output = <<>>
        /\ \A i \in DOMAIN console : ~IsReportText(console[i])
        /\ pc \in {"main", "analyse", "exited"}
        /\ (pc = "exited" /\ argc = 3 /\ fstat1 # "missing" /\ fstat2 # "missing") =>
              /\ error \in {"OSError", "JSONDecodeError"}
              /\ exitStatus # 0

C5_Witness ==
    /\ fstat1 = "ok" /\ fstat2 = "malformed"
    /\ pc = "exited"
    /\ error = "JSONDecodeError"

MissingPath == argc = 3 /\ (fstat1 = "missing" \/ fstat2 = "missing")

NothingLoaded ==
    /\ data16 = <<>> /\ data17 = <<>>
    /\ output = <<>>
    /\ fileContent = NoFile
    /\ error = NoError

\* C6 as stated: a wrong argument count prints usage and exits non-zero; a
\* missing path exits, before any loading, with a non-zero status distinct
\* from the status of the wrong argument count.
C6_DistinctExitStatus ==
    /\ (pc = "exited" /\ argc # 3) =>
          /\ exitStatus # 0
          /\ console = << <<"Usage">>, <<"Example">> >>
    /\ (pc = "exited" /\ MissingPath) =>
          /\ exitStatus # 0
          /\ exitStatus # UsageStatus
          /\ NothingLoaded

\* C6 as amended: a wrong argument count prints usage and exits non-zero; a
\* missing path exits, before any loading, with a non-zero status, which is
\* the status of the wrong argument count.
C6_SameExitStatus ==
    /\ (pc = "exited" /\ argc # 3) =>
          /\ exitStatus # 0
          /\ exitStatus = UsageStatus
          /\ console = << <<"Usage">>, <<"Example">> >>
          /\ NothingLoaded
    /\ (pc = "exited" /\ MissingPath) =>
          /\ exitStatus # 0
          /\ exitStatus = UsageStatus
          /\ Len(console) = 1 /\ console[1][1] = "Error: File '"
          /\ NothingLoaded

C6_Witness ==
    /\ pc = "exited"
    /\ argc = 3 /\ fstat1 = "ok" /\ fstat2 = "missing"
    /\ exitStatus = 1

NoId(objs) == {i \in DOMAIN objs : "id" \notin objs[i].keys}

\* every object of an index and of a group carries the id it is filed under
Filed(index, by_type) ==
    /\ \A id \in DOMAIN index : "id" \in index[id].keys /\ index[id].id = id
    /\ \A t \in DOMAIN by_type :
          \A i \in DOMAIN by_type[t] : "id" \in by_type[t][i].keys

\* C9: a record without 'id' is left out of the index, so it is in none of
\* added, removed, common and modified, but it counts in 'Total Objects',
\* and its presence is no error.
C9_RecordsWithoutId ==
    /\ Diffed =>
          /\ Filed(objects16, removed_by_type)
          /\ Filed(objects17, new_by_type)
          /\ Cardinality(DOMAIN objects16) <= Len(data16) - Cardinality(NoId(data16))
          /\ Cardinality(DOMAIN objects17) <= Len(data17) - Cardinality(NoId(data17))
          /\ new_ids \cup removed_ids \cup common_ids \cup modified_ids
                \subseteq {data16[i].id : i \in DOMAIN data16 \ NoId(data16)}
                    \cup {data17[i].id : i \in DOMAIN data17 \ NoId(data17)}
    /\ output # <<>> =>
          output[6] = <<"| **Total Objects** | ", ToString(Len(data16)), " | ",
                        ToString(Len(data17)), " | ">>
                      \o (IF Len(data17) >= Len(data16)
                          THEN <<"+", ToString(Len(data17) - Len(data16))>>
                          ELSE <<"-", ToString(Len(data16) - Len(data17))>>)
                      \o <<" |">>
    /\ (Loaded /\ pc = "exited" /\ common_ids # {}) => Reported

C9_Witness ==
    /\ Reported
    /\ NoId(data17) # {}
    /\ new_ids # {}
    /\ Len(data17) > Cardinality(DOMAIN objects17)

\* the order the claim gives the category listings
ListingOrder == <<"attack-pattern", "intrusion-set", "malware", "tool", "campaign">>

ListingTitle ==
    [c \in {ListingOrder[k] : k \in DOMAIN ListingOrder} |->
        CASE c = "attack-pattern" -> "### New Attack Techniques ("
          [] c = "intrusion-set" -> "### New Threat Actors ("
          [] c = "malware" -> "### New Malware Families ("
          [] c = "tool" -> "### New Tools ("
          [] c = "campaign" -> "### New Campaigns ("]

\* the lines of the report that start with the given text
LinesStarting(text) == {i \in DOMAIN output : output[i] # <<>> /\ output[i][1] = text}

\* the added records of a category
AddedOf(c) == {id \in new_ids : objects17[id].type = c}

\* the listing of category number k: there if and only if the category has
\* added records, once, between the statistics and the technical summary,
\* its n records numbered 1..n on the n lines below its title, then a blank
\* line, and all of it above the listings of the later categories
ListingRight(k) ==
    LET c == ListingOrder[k]
        n == Cardinality(AddedOf(c))
        titles == LinesStarting(ListingTitle[c])
    IN /\ (titles # {}) <=> (n > 0)
       /\ Cardinality(titles) <= 1
       /\ \A h \in titles :
             /\ \A s \in LinesStarting("- **Net Change**: ") : s < h
             /\ \A t \in LinesStarting("## Technical Changes Summary\n") : h + n + 1 < t
             /\ output[h] = <<ListingTitle[c], ToString(n), " total)\n">>
             /\ \A i \in 1..n :
                   /\ output[h + i][1] = ToString(i)
                   /\ output[h + i][2] = ". **"
                   /\ \E id \in AddedOf(c) : output[h + i] = ItemLine(i, objects17[id], c)
             /\ \A id \in AddedOf(c) :
                   Cardinality({i \in 1..n :
                       \E j \in DOMAIN new_by_type[c] :
                           /\ new_by_type[c][j].id = id
                           /\ i = j
                           /\ output[h + i] = ItemLine(i, objects17[id], c)}) = 1
             /\ output[h + n + 1] = <<>>
             /\ \A k2 \in (k + 1)..Len(ListingOrder) :
                   \A h2 \in LinesStarting(ListingTitle[ListingOrder[k2]]) : h + n + 1 < h2

----------------------------------------------------------------------------
(* Claims about check_for_latest_release *)

\* C7: every execution of check_for_latest_release makes a bounded number of
\* requests and terminates, whatever the server answers: it returns a tag or
\* 'skipped', or fails hard once retries reaches max_retries.
C7_Terminates == <>(spc \in {"returned", "exited"})

\* the common ids whose object lacks 'modified' in n of the two snapshots
LackingModified(n) ==
    {id \in common_ids :
        Cardinality({o \in {<<16, objects16[id]>>, <<17, objects17[id]>>} :
                        "modified" \notin o[2].keys}) = n}

\* C12 as stated: a common record whose 'modified' field is absent, in one
\* snapshot or in both, is placed in the modified set.
C12_AbsentIsModified ==
    Diffed => (LackingModified(1) \cup LackingModified(2)) \subseteq modified_ids

\* C12 as amended: a common record whose 'modified' field is absent in one
\* of the two snapshots and present in the other is placed in the modified
\* set; one whose field is absent in both is not.
C12_AbsentInOneIsModified ==
    Diffed =>
        /\ LackingModified(1) \subseteq modified_ids
        /\ LackingModified(2) \cap modified_ids = {}

C12_Witness ==
    /\ Diffed
    /\ LackingModified(1) # {}
    /\ modified_ids # {}

----------------------------------------------------------------------------
(* clean_text on its own *)

CleanInit == IdleAttack /\ IdleSigma /\ InitClean

CleanNext == CleanOnce \/ CleanAgain

CleanSpec == CleanInit /\ [][CleanNext]_vars

\* C11: clean_text is idempotent: for every text, the empty and the absent
\* one included, clean_text(clean_text(t)) equals clean_text(t).
C11_CleanTextIdempotent == cpc = "twice" => recleaned = cleaned

\* a text that clean_text changes, cleaned twice
C11_Witness ==
    /\ cpc = "twice"
    /\ ~input.isNone
    /\ cleaned # input
    /\ Len(cleaned.chars) > Len(input.chars)

====
